---------------------------- MODULE Spec2Model ----------------------------
(***************************************************************************)
(* Press-n-Go (main.go): the publish pipeline and the session gate.       *)
(*                                                                         *)
(* State: the credentials loaded by LoadConfig, the cookie keys made by    *)
(* init(), the wall clock, the directory tree under "public", and the      *)
(* session cookie held by a client.  One action per HTTP handler; every    *)
(* protected handler is wrapped by the authRequired middleware.           *)
(* Strings the code inspects character by character (page ids, paths) are  *)
(* sequences of one-character strings; strings it only copies (content,    *)
(* themeCSS, credentials) are TLA+ strings.                                *)
(***************************************************************************)
EXTENDS Integers, Sequences, FiniteSets, TLC

(***************************************************************************)
(* Bounds of the model.                                                    *)
(***************************************************************************)
NumRand == 2          \* how many different outcomes of rand.Read are drawn
MaxRestarts == 1      \* how many times the process is restarted
MaxUploads == 3       \* how many successful uploads the history counts
MaxNow == 2592001     \* last instant of the clock, in seconds (30 days + 1)

(***************************************************************************)
(* Program constants.                                                      *)
(***************************************************************************)
IDBytes == 8                      \* make([]byte, 8) in generatePageID
SessionMaxAge == 3600 * 24        \* the Max-Age given to c.SetCookie
\* securecookie.New(hashKey, blockKey) is called without .MaxAge(): the
\* codec keeps the library's default maximum age of 30 days, and that is
\* the only age Decode checks.
DecodeMaxAge == 86400 * 30

StatusOK == 200
StatusFound == 302
StatusBadRequest == 400
StatusUnauthorized == 401
StatusNotFound == 404
StatusInternalServerError == 500

(***************************************************************************)
(* Inputs.                                                                 *)
(***************************************************************************)
Usernames == {"", "admin"}
Passwords == {"", "secret"}
Contents == {"", "<p>x</p>", "# Hi"}          \* "" is a missing content
Types == {"", "html", "markdown", "txt"}      \* "" is a missing type
Themes == {"", "body{}"}
Configs == [Username : Usernames, Password : Passwords]
\* the instants at which something happens
TimePoints == {0, SessionMaxAge + 1, MaxNow}

HexChars == <<"0", "1", "2", "3", "4", "5", "6", "7",
              "8", "9", "a", "b", "c", "d", "e", "f">>

\* hex.EncodeToString: two lowercase hex digits per byte, high nibble first
RECURSIVE EncodeToString(_)
EncodeToString(bytes) ==
  IF bytes = <<>> THEN <<>>
  ELSE <<HexChars[(Head(bytes) \div 16) + 1], HexChars[(Head(bytes) % 16) + 1]>>
       \o EncodeToString(Tail(bytes))

\* the byte strings rand.Read may fill randomBytes with (a sample of 2^64)
ByteSamples == {(i * 171) % 256 : i \in 0..(NumRand - 1)}
RandomBytes == {[i \in 1..IDBytes |-> b] : b \in ByteSamples}

\* mutant: only half of the random bytes are encoded
generatePageID_Short(randomBytes) ==
  EncodeToString(SubSeq(randomBytes, 1, IDBytes \div 2))

\* generatePageID, given what rand.Read produced
generatePageID(randomBytes) == EncodeToString(randomBytes)

PageIDs == {generatePageID(r) : r \in RandomBytes}
FirstRandom == [i \in 1..IDBytes |-> 0]

(***************************************************************************)
(* Paths.  filepath.Join("public", pageID, ...) joins with "/" and then    *)
(* cleans the result: empty and "." elements are dropped, ".." removes     *)
(* the element before it.  A cleaned path is a sequence of names relative  *)
(* to the working directory; Escaped stands for any path that climbs above *)
(* the working directory.                                                  *)
(***************************************************************************)
PublicName == <<"p", "u", "b", "l", "i", "c">>
SourceName == <<"s", "o", "u", "r", "c", "e", ".", "t", "x", "t">>
IndexName == <<"i", "n", "d", "e", "x", ".", "h", "t", "m", "l">>
Escaped == <<<<".", ".">>>>

\* the two files of a page directory, and the file a path element names
SourceFile == "source.txt"
IndexFile == "index.html"
FileOf(elem) ==
  IF elem = SourceName THEN SourceFile
  ELSE IF elem = IndexName THEN IndexFile
  ELSE "?"

\* strings.Contains(s, ch) for a one-character ch
Contains(s, ch) == \E i \in 1..Len(s) : s[i] = ch

\* the elements of s between "/" separators
RECURSIVE SplitFrom(_, _, _)
SplitFrom(s, i, cur) ==
  IF i > Len(s) THEN <<cur>>
  ELSE IF s[i] = "/" THEN <<cur>> \o SplitFrom(s, i + 1, <<>>)
  ELSE SplitFrom(s, i + 1, Append(cur, s[i]))
Split(s) == SplitFrom(s, 1, <<>>)

RECURSIVE CleanFrom(_, _, _)
CleanFrom(elems, i, stack) ==
  IF stack = Escaped THEN Escaped
  ELSE IF i > Len(elems) THEN stack
  ELSE IF elems[i] = <<>> \/ elems[i] = <<".">> THEN CleanFrom(elems, i + 1, stack)
  ELSE IF elems[i] = <<".", ".">>
       THEN IF stack = <<>> THEN Escaped
            ELSE CleanFrom(elems, i + 1, SubSeq(stack, 1, Len(stack) - 1))
  ELSE CleanFrom(elems, i + 1, Append(stack, elems[i]))

\* mutant: the page id is not joined to "public"
FolderPath_Root(pageID) == CleanFrom(<<PublicName>>, 1, <<>>)

\* filepath.Join("public", pageID)
FolderPath(pageID) == CleanFrom(<<PublicName>> \o Split(pageID), 1, <<>>)
\* filepath.Join("public", pageID, "source.txt")
SourcePath(pageID) ==
  CleanFrom(<<PublicName>> \o Split(pageID) \o <<SourceName>>, 1, <<>>)

(***************************************************************************)
(* The file system.  fs.app: the working directory with the binary and the *)
(* templates is intact; fs.root: "public" exists; fs.pages: the            *)
(* directories under "public" by name, each a function from file to        *)
(* content.                                                                *)
(* The program itself only ever creates directories there.                 *)
(***************************************************************************)
EmptyDir == [f \in {} |-> ""]
EmptyFS == [app |-> TRUE, root |-> TRUE, pages |-> [n \in {} |-> EmptyDir]]

\* os.Stat(path) finds something
Exists(f, path) ==
  IF path = Escaped \/ path = <<>> THEN f.app
  ELSE IF path[1] # PublicName THEN FALSE
  ELSE IF Len(path) = 1 THEN f.root
  ELSE IF ~f.root \/ path[2] \notin DOMAIN f.pages THEN FALSE
  ELSE IF Len(path) = 2 THEN TRUE
  ELSE Len(path) = 3 /\ FileOf(path[3]) \in DOMAIN f.pages[path[2]]

Restrict(fn, S) == [x \in S |-> fn[x]]

\* mutant: a page directory is emptied but not removed
RemoveAll_KeepDir(f, path) ==
  IF path # Escaped /\ Len(path) = 2 /\ path[1] = PublicName /\ path[2] \in DOMAIN f.pages
    THEN [f EXCEPT !.pages[path[2]] = Restrict(@, {})]
    ELSE f

\* os.RemoveAll(path) when it succeeds: the path and everything below it
RemoveAll(f, path) ==
  IF path = Escaped \/ path = <<>>
    THEN [app |-> FALSE, root |-> FALSE, pages |-> [n \in {} |-> EmptyDir]]
  ELSE IF path[1] # PublicName \/ ~f.root THEN f
  ELSE IF Len(path) = 1
    THEN [f EXCEPT !.root = FALSE, !.pages = [n \in {} |-> EmptyDir]]
  ELSE IF path[2] \notin DOMAIN f.pages THEN f
  ELSE IF Len(path) = 2
    THEN [f EXCEPT !.pages = Restrict(@, DOMAIN @ \ {path[2]})]
  ELSE IF Len(path) = 3
    THEN [f EXCEPT !.pages[path[2]] = Restrict(@, DOMAIN @ \ {FileOf(path[3])})]
  ELSE f

\* mutant: the directory is made in a "public" that is emptied first
MkdirAll_Fresh(f, pageID) ==
  [f EXCEPT !.root = TRUE, !.pages = [n \in {pageID} |-> EmptyDir]]

\* os.MkdirAll(filepath.Join("public", pageID)) for a generated pageID
MkdirAll(f, pageID) ==
  [f EXCEPT !.root = TRUE,
            !.pages = [n \in DOMAIN @ \cup {pageID} |->
                         IF n \in DOMAIN @ THEN @[n] ELSE EmptyDir]]

\* os.WriteFile(public/pageID/name, data): create or truncate, then write
WriteFile(f, pageID, name, data) ==
  [f EXCEPT !.pages[pageID] =
     [x \in DOMAIN @ \cup {name} |-> IF x = name THEN data ELSE @[x]]]

(***************************************************************************)
(* Content.  A file's content is the sequence of the pieces it was written *)
(* from: <<content>> for a verbatim copy, the pieces of the fmt.Sprintf    *)
(* template for a converted Markdown document.                             *)
(***************************************************************************)
\* md.Convert (goldmark with GFM, auto heading ids, hard wraps, unsafe HTML)
\* on the sampled contents
Convert(content) ==
  CASE content = "# Hi" -> "<h1 id=\"hi\">Hi</h1>\n"
    [] content = "<p>x</p>" -> "<p>x</p>\n"
    [] OTHER -> content

DocHead == "<!DOCTYPE html>...<title>Published Content</title><style>"
DocMid == "</style></head><body><article class=\"markdown-body\">"
DocTail == "</article></body></html>"

\* mutant: every type is converted
FinalContent_AlwaysConvert(req) ==
  <<DocHead, req.ThemeCSS, DocMid, Convert(req.Content), DocTail>>

\* finalContent of createPageFile
FinalContent(req) ==
  IF req.Type = "markdown"
    THEN <<DocHead, req.ThemeCSS, DocMid, Convert(req.Content), DocTail>>
    ELSE <<req.Content>>

\* what WriteFile leaves when it created or truncated the file and then failed
Truncated == <<"">>

UploadRequests == [Content : Contents, Type : Types, ThemeCSS : Themes]

\* mutant: only Content is required
ShouldBindJSON_ContentOnly(req) == req.Content # ""

\* c.ShouldBindJSON(&req) with binding:"required" on Content and Type
ShouldBindJSON(req) == req.Content # "" /\ req.Type # ""

\* where an upload's file system calls may fail
UploadFaults == {"none", "mkdir", "source_open", "source_write", "convert",
                 "index_open", "index_write"}

\* mutant: source.txt receives the rendered document
createPageFile_RenderedSource(f, pageID, req, fault) ==
  LET f1 == MkdirAll(f, pageID)
      f2 == WriteFile(f1, pageID, SourceFile, FinalContent(req))
      f3 == WriteFile(f2, pageID, IndexFile, FinalContent(req))
  IN  CASE fault = "mkdir" -> [fs |-> f, err |-> TRUE]
        [] fault = "source_open" -> [fs |-> f1, err |-> TRUE]
        [] fault \in {"source_write", "convert", "index_open", "index_write"} ->
             [fs |-> f2, err |-> TRUE]
        [] OTHER -> [fs |-> f3, err |-> FALSE]

\* createPageFile: the file system it leaves and whether it returned an error
createPageFile(f, pageID, req, fault) ==
  LET f1 == MkdirAll(f, pageID)
      f2 == WriteFile(f1, pageID, SourceFile, <<req.Content>>)
      f3 == WriteFile(f2, pageID, IndexFile, FinalContent(req))
  IN  CASE fault = "mkdir" -> [fs |-> f, err |-> TRUE]
        [] fault = "source_open" -> [fs |-> f1, err |-> TRUE]
        [] fault = "source_write" ->
             [fs |-> WriteFile(f1, pageID, SourceFile, Truncated), err |-> TRUE]
        [] fault = "convert" /\ req.Type = "markdown" -> [fs |-> f2, err |-> TRUE]
        [] fault = "index_open" -> [fs |-> f2, err |-> TRUE]
        [] fault = "index_write" ->
             [fs |-> WriteFile(f2, pageID, IndexFile, Truncated), err |-> TRUE]
        [] OTHER -> [fs |-> f3, err |-> FALSE]

\* the "url" of handleUpload's answer: fmt.Sprintf("/%s/", pageID)
Url(pageID) == <<"/">> \o pageID \o <<"/">>

\* mutant: the check for "." is missing
InvalidPageID_NoDot(pageID) == pageID = <<>> \/ Contains(pageID, "/")

\* the id check shared by handleDeletePage and handleDownloadSource
InvalidPageID(pageID) ==
  pageID = <<>> \/ Contains(pageID, ".") \/ Contains(pageID, "/")

\* the entries handleListPages reports: os.ReadDir("public"), directories
\* only, none named index.html, without those whose entry.Info() failed
ListEntries(f, infoFailed) ==
  {n \in DOMAIN f.pages : n # IndexName /\ n \notin infoFailed}

(***************************************************************************)
(* Sessions.  A cookie value made by cookieHandler.Encode carries the key  *)
(* that signed it, the time it was made and the encoded map.               *)
(***************************************************************************)
NoCookie == [kind |-> "none", key |-> 0, ts |-> 0, authenticated |-> ""]
\* a value not signed by any key of the server
Forged == [kind |-> "value", key |-> -1, ts |-> 0, authenticated |-> "true"]

VARIABLES
  appConfig,   \* the Config loaded by LoadConfig
  keys,        \* the hashKey/blockKey pair generated by init()
  now,         \* the clock, in seconds
  fs,          \* the working directory and "public"
  jar,         \* the session cookie a browser received last
  saved,       \* the session cookie the server set last, as kept by a
               \* client that ignores Max-Age and deletion (a script, a proxy)
  minted,      \* history: what createSession encoded in this process for
               \* a login with the configured credentials
  revoked,     \* history: the cookie the browser held at its last logout,
               \* until the next login
  history,     \* history: the uploads that returned 200, as long as the
               \* handlers ran nothing but such uploads, lists and downloads
  last,        \* the request handled last and its response
  tasks        \* the requests in progress, where handlers run step by step

vars == <<appConfig, keys, now, fs, jar, saved, minted, revoked, history, last,
          tasks>>

\* cookieHandler.Encode("session", {"authenticated": "true"})
Encode(k, t) == [kind |-> "value", key |-> k, ts |-> t, authenticated |-> "true"]

\* mutant: the MAC is not verified against the current keys
Decode_AnyKey(cookie) ==
  /\ cookie.kind = "value"
  /\ cookie.key >= 0
  /\ cookie.ts >= now - DecodeMaxAge

\* cookieHandler.Decode succeeds: the MAC verifies under the current keys
\* and the timestamp is not older than the codec's maximum age
Decode(cookie) ==
  /\ cookie.kind = "value"
  /\ cookie.key = keys
  /\ cookie.ts >= now - DecodeMaxAge

isAuthenticated(cookie) ==
  IF cookie.kind = "none" THEN FALSE
  ELSE IF ~Decode(cookie) THEN FALSE
  ELSE cookie.authenticated = "true"

\* mutant: the gate does not look at the configuration
authRequired_AuthOnly(cookie) == isAuthenticated(cookie)

\* the condition under which authRequired calls c.Next()
authRequired(cookie) ==
  appConfig.Username = "" \/ appConfig.Password = "" \/ isAuthenticated(cookie)

\* the comparison of handleLogin
CredentialsMatch(username, password) ==
  username = appConfig.Username /\ password = appConfig.Password

\* the cookie the browser sends: it drops a cookie once its Max-Age is over
ClientCookie ==
  IF jar.kind = "value" /\ now > jar.ts + SessionMaxAge THEN NoCookie ELSE jar

\* the cookies a request may carry
Cookies == {NoCookie, Forged, ClientCookie, saved}
\* the cookies a browser sends
BrowserCookies == {NoCookie, ClientCookie}

\* last: the route, the cookie and the input of the request; the status,
\* the Location and the body of the response; whether the route's handler
\* ran; the page id the handler worked on
NoRequest ==
  [route |-> "none", cookie |-> NoCookie, arg |-> <<>>, status |-> 0,
   loc |-> "", ran |-> FALSE, id |-> <<>>, out |-> <<>>]

Response(route, cookie, arg, status, loc, ran, id, out) ==
  [route |-> route, cookie |-> cookie, arg |-> arg, status |-> status,
   loc |-> loc, ran |-> ran, id |-> id, out |-> out]

Void == [pure |-> FALSE, n |-> 0, ids |-> {}]

\* no request is in progress
NoTasks == [w \in {} |-> NoRequest]

\* c.Redirect(http.StatusFound, "/login"); c.Abort()
Redirected(route, cookie, arg) ==
  /\ last' = Response(route, cookie, arg, StatusFound, "/login", FALSE, <<>>, <<>>)
  /\ UNCHANGED <<appConfig, keys, now, fs, jar, saved, minted, revoked, history, tasks>>

InitWith(configs) ==
  /\ appConfig \in configs
  /\ keys = 0
  /\ now = 0
  /\ fs = EmptyFS
  /\ jar = NoCookie
  /\ saved = NoCookie
  /\ minted = {}
  /\ revoked = NoCookie
  /\ history = [pure |-> TRUE, n |-> 0, ids |-> {}]
  /\ last = NoRequest
  /\ tasks = NoTasks

(***************************************************************************)
(* Handlers, as functions of the state they read and of what the           *)
(* environment did (a failing system call).                                *)
(***************************************************************************)
FileNames == {SourceFile, IndexFile}

\* the ids a request may name in /api/pages/:id
RequestIDs ==
  PageIDs
  \cup {<<>>, <<".">>, <<".", ".">>, <<"a", "b">>}
  \cup {<<".", "/">> \o generatePageID(FirstRandom),
        generatePageID(FirstRandom) \o <<"/">> \o IndexName}

\* a plain upload, and the requests of the gate's specification
PlainRequests == {[Content |-> "<p>x</p>", Type |-> "html", ThemeCSS |-> ""]}
\* the requests of the page store's specification
StoreRequests ==
  {[Content |-> "<p>x</p>", Type |-> "html", ThemeCSS |-> ""],
   [Content |-> "# Hi", Type |-> "markdown", ThemeCSS |-> "body{}"],
   [Content |-> "", Type |-> "html", ThemeCSS |-> ""],
   [Content |-> "# Hi", Type |-> "", ThemeCSS |-> "body{}"]}
\* the failures of the page store's specification: a call that fails
\* before it wrote anything
StoreFaults == {"none", "mkdir", "source_open", "convert", "index_open"}

\* mutant: a session is created whatever the credentials
handleLogin_NoCheck(username, password) ==
  [status |-> StatusFound, loc |-> "/", cookie |-> Encode(keys, now)]

\* handleLogin: the status, the redirect and the cookie it sets
handleLogin(username, password) ==
  IF CredentialsMatch(username, password)
    THEN [status |-> StatusFound, loc |-> "/", cookie |-> Encode(keys, now)]
    ELSE [status |-> StatusUnauthorized, loc |-> "", cookie |-> NoCookie]

\* mutant: the cookie is set again instead of deleted
handleLogout_KeepCookie == [status |-> StatusFound, loc |-> "/login", cookie |-> jar]

\* handleLogout: c.SetCookie("session", "", -1, ...) makes the browser drop
\* its cookie; nothing is recorded on the server
handleLogout == [status |-> StatusFound, loc |-> "/login", cookie |-> NoCookie]

\* mutant: what a failed createPageFile wrote is removed again
handleUpload_Rollback(f, req, randomBytes, fault) ==
  IF ~ShouldBindJSON(req)
    THEN [fs |-> f, status |-> StatusBadRequest, id |-> <<>>, out |-> <<>>]
  ELSE LET pageID == generatePageID(randomBytes)
           made == createPageFile(f, pageID, req, fault)
       IN  IF made.err
             THEN [fs |-> f, status |-> StatusInternalServerError,
                   id |-> pageID, out |-> <<>>]
             ELSE [fs |-> made.fs, status |-> StatusOK,
                   id |-> pageID, out |-> Url(pageID)]

\* handleUpload
handleUpload(f, req, randomBytes, fault) ==
  IF ~ShouldBindJSON(req)
    THEN [fs |-> f, status |-> StatusBadRequest, id |-> <<>>, out |-> <<>>]
  ELSE LET pageID == generatePageID(randomBytes)
           made == createPageFile(f, pageID, req, fault)
       IN  IF made.err
             THEN [fs |-> made.fs, status |-> StatusInternalServerError,
                   id |-> pageID, out |-> <<>>]
             ELSE [fs |-> made.fs, status |-> StatusOK,
                   id |-> pageID, out |-> Url(pageID)]

\* handleListPages
handleListPages(f, readFailed, infoFailed) ==
  IF readFailed \/ ~f.root
    THEN [status |-> StatusInternalServerError, out |-> {}]
    ELSE [status |-> StatusOK, out |-> ListEntries(f, infoFailed)]

\* what a failed os.RemoveAll leaves of a page directory: the directory
\* with the files in kept
RemoveSome(f, path, kept) ==
  IF Len(path) = 2 /\ path # Escaped /\ path[1] = PublicName /\ path[2] \in DOMAIN f.pages
    THEN [f EXCEPT !.pages[path[2]] = Restrict(@, DOMAIN @ \cap kept)]
    ELSE f

\* handleDeletePage
handleDeletePage(f, pageID, removeFailed, kept) ==
  IF InvalidPageID(pageID) THEN [fs |-> f, status |-> StatusBadRequest]
  ELSE LET folderPath == FolderPath(pageID) IN
       IF ~Exists(f, folderPath) THEN [fs |-> f, status |-> StatusNotFound]
       ELSE IF removeFailed
         THEN [fs |-> RemoveSome(f, folderPath, kept),
               status |-> StatusInternalServerError]
       ELSE [fs |-> RemoveAll(f, folderPath), status |-> StatusOK]

\* the file c.FileAttachment streams, for a path that exists
ReadFile(f, path) ==
  IF Len(path) = 3 THEN f.pages[path[2]][FileOf(path[3])] ELSE <<>>

\* handleDownloadSource
handleDownloadSource(f, pageID) ==
  IF InvalidPageID(pageID) THEN [status |-> StatusBadRequest, out |-> <<>>]
  ELSE LET sourcePath == SourcePath(pageID) IN
       IF ~Exists(f, sourcePath) THEN [status |-> StatusNotFound, out |-> <<>>]
       ELSE [status |-> StatusOK, out |-> ReadFile(f, sourcePath)]

\* what the static middleware serves at /<id>/: static.Serve("/",
\* static.LocalFile("./public", false)) answers for a directory only when
\* it holds an index.html, and then with that file
ServePage(f, pageID) ==
  IF f.root /\ pageID \in DOMAIN f.pages /\ IndexFile \in DOMAIN f.pages[pageID]
    THEN [status |-> StatusOK, out |-> f.pages[pageID][IndexFile]]
    ELSE [status |-> StatusNotFound, out |-> <<>>]

(***************************************************************************)
(* Actions: one per route, and the environment's.  Each takes the sets its *)
(* inputs are drawn from.                                                  *)
(***************************************************************************)
\* POST /login
Login(usernames, passwords) ==
  \E username \in usernames, password \in passwords :
    LET r == handleLogin(username, password)
        set == r.cookie.kind = "value"
    IN
    /\ jar' = IF set THEN r.cookie ELSE jar
    /\ saved' = IF set THEN r.cookie ELSE saved
    /\ minted' = IF /\ set
                    /\ username = appConfig.Username
                    /\ password = appConfig.Password
                   THEN minted \cup {r.cookie} ELSE minted
    /\ revoked' = IF set THEN NoCookie ELSE revoked
    /\ last' = Response("login", NoCookie, <<username, password>>, r.status,
                        r.loc, TRUE, <<>>, r.cookie)
    /\ UNCHANGED <<appConfig, keys, now, fs, history, tasks>>

\* GET /logout
Logout ==
  LET r == handleLogout IN
  /\ jar' = r.cookie
  /\ revoked' = IF ClientCookie.kind = "value" THEN ClientCookie ELSE revoked
  /\ last' = Response("logout", ClientCookie, <<>>, r.status, r.loc, TRUE,
                      <<>>, r.cookie)
  /\ UNCHANGED <<appConfig, keys, now, fs, saved, minted, history, tasks>>

\* GET /
Panel(cookies) ==
  \E cookie \in cookies :
    IF authRequired(cookie)
      THEN /\ last' = Response("panel", cookie, <<>>, StatusOK, "", TRUE, <<>>, <<>>)
           /\ UNCHANGED <<appConfig, keys, now, fs, jar, saved, minted, revoked,
                          history, tasks>>
      ELSE Redirected("panel", cookie, <<>>)

\* POST /api/upload
Upload(cookies, requests, randoms, faults) ==
  \E cookie \in cookies, req \in requests, randomBytes \in randoms,
     fault \in faults :
    /\ ShouldBindJSON(req) \/ (fault = "none" /\ randomBytes = FirstRandom)
    /\ IF authRequired(cookie)
         THEN LET r == handleUpload(fs, req, randomBytes, fault) IN
              /\ fs' = r.fs
              /\ history' =
                   CASE r.status = StatusBadRequest -> history
                     [] r.status = StatusOK /\ history.pure /\ history.n < MaxUploads ->
                          [history EXCEPT !.n = @ + 1, !.ids = @ \cup {r.id}]
                     [] OTHER -> Void
              /\ last' = Response("upload", cookie, req, r.status, "", TRUE,
                                  r.id, r.out)
              /\ UNCHANGED <<appConfig, keys, now, jar, saved, minted, revoked, tasks>>
         ELSE Redirected("upload", cookie, req)

\* GET /api/pages
ListPages(cookies, readFaults, infoFaults) ==
  \E cookie \in cookies, readFailed \in readFaults, infoFailed \in infoFaults :
    /\ readFailed => infoFailed = {}
    /\ IF authRequired(cookie)
         THEN LET r == handleListPages(fs, readFailed, infoFailed) IN
              /\ last' = Response("list", cookie, infoFailed, r.status, "", TRUE,
                                  <<>>, r.out)
              /\ UNCHANGED <<appConfig, keys, now, fs, jar, saved, minted,
                             revoked, history, tasks>>
         ELSE Redirected("list", cookie, infoFailed)

\* DELETE /api/pages/:id
DeletePage(cookies, ids, removeFaults) ==
  \E cookie \in cookies, pageID \in ids, removeFailed \in removeFaults,
     kept \in SUBSET FileNames :
    /\ removeFailed \/ kept = {}
    /\ removeFailed => ~InvalidPageID(pageID) /\ Exists(fs, FolderPath(pageID))
    /\ IF authRequired(cookie)
         THEN LET r == handleDeletePage(fs, pageID, removeFailed, kept) IN
              /\ fs' = r.fs
              /\ history' = Void
              /\ last' = Response("delete", cookie, pageID, r.status, "", TRUE,
                                  pageID, <<>>)
              /\ UNCHANGED <<appConfig, keys, now, jar, saved, minted, revoked, tasks>>
         ELSE Redirected("delete", cookie, pageID)

\* GET /api/pages/:id/source
DownloadSource(cookies, ids) ==
  \E cookie \in cookies, pageID \in ids :
    IF authRequired(cookie)
      THEN LET r == handleDownloadSource(fs, pageID) IN
           /\ last' = Response("source", cookie, pageID, r.status, "", TRUE,
                               pageID, r.out)
           /\ UNCHANGED <<appConfig, keys, now, fs, jar, saved, minted, revoked,
                          history, tasks>>
      ELSE Redirected("source", cookie, pageID)

\* time passes
Tick ==
  \E t \in TimePoints :
    /\ t > now
    /\ now' = t
    /\ last' = NoRequest
    /\ UNCHANGED <<appConfig, keys, fs, jar, saved, minted, revoked, history, tasks>>

\* the process is stopped and started again: init() makes new keys, main()
\* loads the same configuration and makes sure "public" exists
Restart ==
  /\ keys < MaxRestarts
  /\ keys' = keys + 1
  /\ minted' = {}
  /\ fs' = [fs EXCEPT !.root = TRUE]
  /\ last' = NoRequest
  /\ tasks' = NoTasks
  /\ UNCHANGED <<appConfig, now, jar, saved, revoked, history>>

(***************************************************************************)
(* The gate: every configuration, every cookie, the passing of time and    *)
(* restarts; one plain upload request and no failing system call.          *)
(***************************************************************************)
Init == InitWith(Configs)

Next ==
  \/ Login(Usernames, Passwords)
  \/ Logout
  \/ Panel(Cookies)
  \/ Upload(Cookies, PlainRequests, {FirstRandom}, {"none"})
  \/ ListPages(Cookies, {FALSE}, {{}})
  \/ DeletePage(Cookies, {generatePageID(FirstRandom), <<".">>}, {FALSE})
  \/ DownloadSource(Cookies, {generatePageID(FirstRandom), <<".">>})
  \/ Tick
  \/ Restart

Spec == Init /\ [][Next]_vars

(***************************************************************************)
(* The page store: every upload request, every id, failing system calls.   *)
(* Authentication is disabled, so that every request is served.            *)
(***************************************************************************)
StoreConfigs == {[Username |-> "", Password |-> ""]}

InitStore == InitWith(StoreConfigs)

NextStore ==
  \/ Upload({NoCookie}, StoreRequests, RandomBytes, StoreFaults)
  \/ ListPages({NoCookie}, BOOLEAN, {{}} \cup {{id} : id \in PageIDs})
  \/ DeletePage({NoCookie}, RequestIDs, BOOLEAN)
  \/ DownloadSource({NoCookie}, RequestIDs)

SpecStore == InitStore /\ [][NextStore]_vars

(***************************************************************************)
(* Failing creates: two ids, the two kinds of content, and every point at  *)
(* which a system call of createPageFile may fail, a write that fails      *)
(* after the file was created or truncated included.                       *)
(***************************************************************************)
LastRandom == [i \in 1..IDBytes |-> 255]
CreateRandoms == {FirstRandom, LastRandom}
CreateIDs == {generatePageID(r) : r \in CreateRandoms}
CreateRequests == {req \in StoreRequests : ShouldBindJSON(req)}

InitCreate == InitWith(StoreConfigs)

NextCreate ==
  \/ Upload({NoCookie}, CreateRequests, CreateRandoms, UploadFaults)
  \/ ListPages({NoCookie}, {FALSE}, {{}})
  \/ DeletePage({NoCookie}, CreateIDs, {FALSE})
  \/ DownloadSource({NoCookie}, CreateIDs)

SpecCreate == InitCreate /\ [][NextCreate]_vars

(***************************************************************************)
(* Concurrent requests.  gin runs every request in a goroutine of its own  *)
(* and the handlers take no lock, so the system calls of the requests in   *)
(* progress interleave.  tasks maps each request in progress, or answered, *)
(* to where its handler stands; a step is one system call together with    *)
(* the computation that follows it up to the next system call.             *)
(*   upload: MkdirAll | open source.txt | write | open index.html | write  *)
(*   delete: Stat | Remove, read the names | unlink each | rmdir           *)
(*   list:   ReadDir | Info of each entry, in the order of the names       *)
(* os.WriteFile opens with O_CREATE|O_TRUNC and writes at offset 0; a write *)
(* to a file that was unlinked after it was opened changes nothing in the  *)
(* directory.  os.RemoveAll answers nil when the path is gone, and the     *)
(* error of the final rmdir when a file appeared after it read the names.  *)
(***************************************************************************)
\* the size of a content in bytes
RECURSIVE Size(_)
Size(data) ==
  IF data = <<>> THEN 0
  ELSE IF Head(data) = "overlay" THEN Size(data[3])
  ELSE Len(Head(data)) + Size(Tail(data))

\* what a file holds after data was written at offset 0 over old: data,
\* followed by the bytes of old beyond the size of data
Overlay(data, old) ==
  IF Size(data) >= Size(old) THEN data ELSE <<"overlay", data, old>>

\* unlinkat(dir of pageID, name)
Unlink(f, pageID, name) ==
  IF pageID \in DOMAIN f.pages
    THEN [f EXCEPT !.pages[pageID] = Restrict(@, DOMAIN @ \ {name})]
    ELSE f

\* the value of a hexadecimal digit, and the order of ids as strings
HexValue(ch) == CHOOSE i \in 1..16 : HexChars[i] = ch
RECURSIVE Less(_, _)
Less(a, b) ==
  IF a = <<>> THEN b # <<>>
  ELSE IF b = <<>> THEN FALSE
  ELSE IF Head(a) = Head(b) THEN Less(Tail(a), Tail(b))
  ELSE HexValue(Head(a)) < HexValue(Head(b))
Least(S) == CHOOSE x \in S : \A y \in S \ {x} : Less(x, y)

UploadTask(pc, pageID, req, status, out) ==
  [op |-> "upload", pc |-> pc, id |-> pageID, req |-> req, linked |-> FALSE,
   status |-> status, out |-> out]
DeleteTask(pc, pageID, status) ==
  [op |-> "delete", pc |-> pc, id |-> pageID, names |-> {}, removed |-> FALSE,
   status |-> status]
ListTask(pc, entries, status) ==
  [op |-> "list", pc |-> pc, entries |-> entries, seen |-> entries,
   skipped |-> {}, stable |-> entries, out |-> {}, status |-> status]

\* handleUpload up to and including os.MkdirAll
handleUploadBegin(f, req, randomBytes) ==
  IF ~ShouldBindJSON(req)
    THEN [fs |-> f, task |-> UploadTask("done", <<>>, req, StatusBadRequest, <<>>)]
  ELSE LET pageID == generatePageID(randomBytes) IN
       [fs |-> MkdirAll(f, pageID),
        task |-> UploadTask("source_open", pageID, req, 0, <<>>)]

\* createPageFile returns an error and handleUpload answers 500
Failed(t) == [t EXCEPT !.pc = "done", !.status = StatusInternalServerError]

\* mutant: index.html receives the content as it was uploaded
createPageFileAt_RawIndex(f, t, failed) ==
  LET there == t.id \in DOMAIN f.pages IN
  CASE t.pc = "source_open" ->
         IF failed \/ ~there THEN [fs |-> f, task |-> Failed(t)]
         ELSE [fs |-> WriteFile(f, t.id, SourceFile, Truncated),
               task |-> [t EXCEPT !.pc = "source_write", !.linked = TRUE]]
    [] t.pc = "source_write" ->
         [fs |-> IF t.linked
                   THEN WriteFile(f, t.id, SourceFile,
                                  Overlay(<<t.req.Content>>, f.pages[t.id][SourceFile]))
                   ELSE f,
          task |-> [t EXCEPT !.pc = "index_open", !.linked = FALSE]]
    [] t.pc = "index_open" ->
         IF failed \/ ~there THEN [fs |-> f, task |-> Failed(t)]
         ELSE [fs |-> WriteFile(f, t.id, IndexFile, Truncated),
               task |-> [t EXCEPT !.pc = "index_write", !.linked = TRUE]]
    [] OTHER ->
         [fs |-> IF t.linked
                   THEN WriteFile(f, t.id, IndexFile,
                                  Overlay(<<t.req.Content>>, f.pages[t.id][IndexFile]))
                   ELSE f,
          task |-> [t EXCEPT !.pc = "done", !.linked = FALSE,
                             !.status = StatusOK, !.out = Url(t.id)]]

\* createPageFile after os.MkdirAll, one system call at t.pc; failed: the
\* call fails for a reason of its own
createPageFileAt(f, t, failed) ==
  LET there == t.id \in DOMAIN f.pages IN
  CASE t.pc = "source_open" ->
         IF failed \/ ~there THEN [fs |-> f, task |-> Failed(t)]
         ELSE [fs |-> WriteFile(f, t.id, SourceFile, Truncated),
               task |-> [t EXCEPT !.pc = "source_write", !.linked = TRUE]]
    [] t.pc = "source_write" ->
         [fs |-> IF t.linked
                   THEN WriteFile(f, t.id, SourceFile,
                                  Overlay(<<t.req.Content>>, f.pages[t.id][SourceFile]))
                   ELSE f,
          task |-> [t EXCEPT !.pc = "index_open", !.linked = FALSE]]
    [] t.pc = "index_open" ->
         IF failed \/ ~there THEN [fs |-> f, task |-> Failed(t)]
         ELSE [fs |-> WriteFile(f, t.id, IndexFile, Truncated),
               task |-> [t EXCEPT !.pc = "index_write", !.linked = TRUE]]
    [] OTHER ->
         [fs |-> IF t.linked
                   THEN WriteFile(f, t.id, IndexFile,
                                  Overlay(FinalContent(t.req), f.pages[t.id][IndexFile]))
                   ELSE f,
          task |-> [t EXCEPT !.pc = "done", !.linked = FALSE,
                             !.status = StatusOK, !.out = Url(t.id)]]

\* handleDeletePage up to and including os.Stat
handleDeletePageBegin(f, pageID) ==
  IF InvalidPageID(pageID) THEN DeleteTask("done", pageID, StatusBadRequest)
  ELSE IF ~Exists(f, FolderPath(pageID)) THEN DeleteTask("done", pageID, StatusNotFound)
  ELSE DeleteTask("remove", pageID, 0)

\* mutant: the error of the final rmdir is ignored
handleDeletePageAt_IgnoreNotEmpty(f, t, name) ==
  LET there == t.id \in DOMAIN f.pages
      gone == [t EXCEPT !.pc = "done", !.status = StatusOK]
      removed == [t EXCEPT !.pc = "done", !.status = StatusOK, !.removed = TRUE]
  IN
  CASE t.pc = "remove" ->
         IF ~there THEN [fs |-> f, task |-> gone]
         ELSE IF DOMAIN f.pages[t.id] = {}
           THEN [fs |-> RemoveAll(f, FolderPath(t.id)), task |-> removed]
         ELSE [fs |-> f,
               task |-> [t EXCEPT !.pc = "unlink", !.names = DOMAIN f.pages[t.id]]]
    [] t.pc = "unlink" ->
         [fs |-> Unlink(f, t.id, name),
          task |-> [t EXCEPT !.names = @ \ {name},
                             !.pc = IF t.names = {name} THEN "rmdir" ELSE "unlink",
                             !.removed = @ \/ (there /\ name \in DOMAIN f.pages[t.id])]]
    [] OTHER ->
         IF ~there THEN [fs |-> f, task |-> gone]
         ELSE IF DOMAIN f.pages[t.id] = {}
           THEN [fs |-> RemoveAll(f, FolderPath(t.id)), task |-> removed]
         ELSE [fs |-> f, task |-> gone]

\* os.RemoveAll of a page directory, one system call at t.pc; name: the
\* entry it unlinks next
handleDeletePageAt(f, t, name) ==
  LET there == t.id \in DOMAIN f.pages
      gone == [t EXCEPT !.pc = "done", !.status = StatusOK]
      removed == [t EXCEPT !.pc = "done", !.status = StatusOK, !.removed = TRUE]
  IN
  CASE t.pc = "remove" ->
         IF ~there THEN [fs |-> f, task |-> gone]
         ELSE IF DOMAIN f.pages[t.id] = {}
           THEN [fs |-> RemoveAll(f, FolderPath(t.id)), task |-> removed]
         ELSE [fs |-> f,
               task |-> [t EXCEPT !.pc = "unlink", !.names = DOMAIN f.pages[t.id]]]
    [] t.pc = "unlink" ->
         [fs |-> Unlink(f, t.id, name),
          task |-> [t EXCEPT !.names = @ \ {name},
                             !.pc = IF t.names = {name} THEN "rmdir" ELSE "unlink",
                             !.removed = @ \/ (there /\ name \in DOMAIN f.pages[t.id])]]
    [] OTHER ->
         IF ~there THEN [fs |-> f, task |-> gone]
         ELSE IF DOMAIN f.pages[t.id] = {}
           THEN [fs |-> RemoveAll(f, FolderPath(t.id)), task |-> removed]
         ELSE [fs |-> f, task |-> Failed(t)]

\* handleListPages up to and including os.ReadDir
handleListPagesBegin(f) ==
  IF ~f.root THEN ListTask("done", {}, StatusInternalServerError)
  ELSE LET entries == ListEntries(f, {}) IN
       IF entries = {} THEN ListTask("done", {}, StatusOK)
       ELSE ListTask("info", entries, 0)

\* mutant: a failing entry.Info() ends the listing with an error
handleListPagesAt_Abort(f, t) ==
  LET n == Least(t.entries)
      left == t.entries \ {n}
  IN  IF n \notin DOMAIN f.pages THEN Failed(t)
      ELSE [t EXCEPT !.entries = left, !.out = @ \cup {n},
                     !.pc = IF left = {} THEN "done" ELSE "info",
                     !.status = IF left = {} THEN StatusOK ELSE 0]

\* one turn of the loop of handleListPages: entry.Info() of the next entry
handleListPagesAt(f, t) ==
  LET n == Least(t.entries)
      left == t.entries \ {n}
      next == [t EXCEPT !.entries = left,
                        !.pc = IF left = {} THEN "done" ELSE "info",
                        !.status = IF left = {} THEN StatusOK ELSE 0]
  IN  IF n \notin DOMAIN f.pages THEN [next EXCEPT !.skipped = @ \cup {n}]
      ELSE [next EXCEPT !.out = @ \cup {n}]

\* tasks with w at t, after the file system became f: a list in progress
\* notes which of its entries are still there, an upload that holds a file
\* open notes when the file is unlinked
Noted(w, t, f) ==
  [x \in DOMAIN tasks \cup {w} |->
     LET old == IF x = w THEN t ELSE tasks[x] IN
     IF x # w /\ old.op = "list" /\ old.pc # "done"
       THEN [old EXCEPT !.stable = @ \cap DOMAIN f.pages]
     ELSE IF x # w /\ old.op = "upload" /\ old.linked
       THEN [old EXCEPT !.linked =
               /\ old.id \in DOMAIN f.pages
               /\ (IF old.pc = "source_write" THEN SourceFile ELSE IndexFile)
                    \in DOMAIN f.pages[old.id]]
     ELSE old]

Step(w, f, t) ==
  /\ fs' = f
  /\ tasks' = Noted(w, t, f)
  /\ UNCHANGED <<appConfig, keys, now, jar, saved, minted, revoked, history, last>>

Running(w, op) == w \in DOMAIN tasks /\ tasks[w].op = op /\ tasks[w].pc # "done"

UploadBegin(w, requests, randoms) ==
  \E req \in requests, randomBytes \in randoms :
    /\ w \notin DOMAIN tasks
    /\ authRequired(NoCookie)
    /\ LET r == handleUploadBegin(fs, req, randomBytes) IN Step(w, r.fs, r.task)

UploadStep(w, faults) ==
  \E failed \in faults :
    /\ Running(w, "upload")
    /\ failed => tasks[w].pc = "index_open"
    /\ LET r == createPageFileAt(fs, tasks[w], failed) IN Step(w, r.fs, r.task)

DeleteBegin(w, ids) ==
  \E pageID \in ids :
    /\ w \notin DOMAIN tasks
    /\ authRequired(NoCookie)
    /\ Step(w, fs, handleDeletePageBegin(fs, pageID))

DeleteStep(w) ==
  /\ Running(w, "delete")
  /\ \E name \in (IF tasks[w].pc = "unlink" THEN tasks[w].names ELSE {SourceFile}) :
       LET r == handleDeletePageAt(fs, tasks[w], name) IN Step(w, r.fs, r.task)

ListBegin(w) ==
  /\ w \notin DOMAIN tasks
  /\ authRequired(NoCookie)
  /\ Step(w, fs, handleListPagesBegin(fs))

ListStep(w) ==
  /\ Running(w, "list")
  /\ Step(w, fs, handleListPagesAt(fs, tasks[w]))

\* two uploads, two deletes and a list, each sent once at any moment
HtmlRequest == [Content |-> "<p>x</p>", Type |-> "html", ThemeCSS |-> ""]
MarkdownRequest == [Content |-> "# Hi", Type |-> "markdown", ThemeCSS |-> "body{}"]

InitRace == InitWith(StoreConfigs)

NextRace ==
  \/ UploadBegin("u1", {HtmlRequest}, CreateRandoms)
  \/ UploadBegin("u2", {MarkdownRequest}, CreateRandoms)
  \/ \E w \in {"u1", "u2"} : UploadStep(w, BOOLEAN)
  \/ \E w \in {"d1", "d2"} : DeleteBegin(w, CreateIDs)
  \/ \E w \in {"d1", "d2"} : DeleteStep(w)
  \/ ListBegin("l1")
  \/ ListStep("l1")

SpecRace == InitRace /\ [][NextRace]_vars

(***************************************************************************)
(* Properties of the gate (checked under Spec).                            *)
(***************************************************************************)
ProtectedRoutes == {"panel", "upload", "list", "delete", "source"}

BothEmpty == appConfig.Username = "" /\ appConfig.Password = ""
BothSet == appConfig.Username # "" /\ appConfig.Password # ""

RedirectedToLogin(r) == r.status = StatusFound /\ r.loc = "/login" /\ ~r.ran

\* C1: unless both credentials are empty, a request to a protected route
\* that carries no cookie isAuthenticated accepts is redirected to /login,
\* its handler does not run and the page store is unchanged.
C1_GatePolicy ==
  [][(/\ last'.route \in ProtectedRoutes
      /\ ~BothEmpty
      /\ ~isAuthenticated(last'.cookie))
     => (RedirectedToLogin(last') /\ fs' = fs)]_vars

\* C2 as stated: with both credentials set, a login with them yields a
\* cookie isAuthenticated accepts, and once the browser has logged out, every
\* request to a protected route that presents that cookie is redirected.
C2_LogoutInvalidates ==
  BothSet =>
    /\ (last.route = "login"
        /\ last.arg = <<appConfig.Username, appConfig.Password>>)
       => isAuthenticated(last.out)
    /\ (last.route \in ProtectedRoutes /\ revoked.kind = "value"
        /\ last.cookie = revoked)
       => RedirectedToLogin(last)

\* C2 as amended: with both credentials set, a login with them yields a
\* cookie isAuthenticated accepts; a logout deletes the browser's cookie, and
\* from then until the next login every request to a protected route that
\* carries what the browser holds is redirected.
C2_LogoutClearsBrowser ==
  BothSet =>
    /\ (last.route = "login"
        /\ last.arg = <<appConfig.Username, appConfig.Password>>)
       => isAuthenticated(last.out)
    /\ last.route = "logout" => ClientCookie = NoCookie
    /\ revoked.kind = "value" => ClientCookie = NoCookie
    /\ (last.route \in ProtectedRoutes /\ revoked.kind = "value"
        /\ last.cookie = ClientCookie)
       => RedirectedToLogin(last)

C2_Witness ==
  /\ BothSet
  /\ revoked.kind = "value"
  /\ last.route = "list"
  /\ last.cookie = ClientCookie
  /\ RedirectedToLogin(last)

\* C3: isAuthenticated rejects a session cookie more than 24 hours after
\* the login that set it, also when a client still presents it.
C3_ExpiresAfter24h ==
  (BothSet /\ saved.kind = "value" /\ now - saved.ts > SessionMaxAge)
    => ~isAuthenticated(saved)

\* C4: a login with other than the configured credentials answers 401 and
\* sets no cookie, and every cookie isAuthenticated accepts was set by a
\* login with the configured credentials in the running process.
C4_TokensOnlyFromLogin ==
  /\ (last.route = "login"
      /\ last.arg # <<appConfig.Username, appConfig.Password>>)
     => (last.status = StatusUnauthorized /\ last.out = NoCookie)
  /\ \A c \in Cookies \cup {jar} : isAuthenticated(c) => c \in minted

C4_Witness ==
  /\ last.route = "login"
  /\ last.status = StatusUnauthorized
  /\ isAuthenticated(saved)
  /\ keys > 0

\* C5: with both credentials empty no request to a protected route is
\* redirected: the handler runs, with no cookie or with an invalid one.
C5_AuthDisabled ==
  (BothEmpty /\ last.route \in ProtectedRoutes)
    => (last.ran /\ last.status # StatusFound /\ last.loc # "/login")

C5_Witness ==
  /\ BothEmpty
  /\ last.route = "delete"
  /\ last.cookie = Forged
  /\ last.status = StatusOK

\* C16: the keys change only when the process restarts, and then they do;
\* a cookie made before a restart is rejected ever after, while one made by
\* the running process is accepted for as long as the codec's maximum age
\* allows.
C16_RestartInvalidates ==
  [][/\ (keys' # keys) <=> (last'.route = "none" /\ minted' = {} /\ now' = now)
     /\ \A c \in {jar', saved'} :
          /\ (c.kind = "value" /\ c.key < keys') => ~isAuthenticated(c)'
          /\ (c.kind = "value" /\ c.key = keys' /\ c.ts >= now' - DecodeMaxAge)
               => isAuthenticated(c)'
     /\ \A c \in minted' : c.key = keys']_vars

C16_Witness ==
  /\ BothSet
  /\ keys > 0
  /\ saved.kind = "value"
  /\ saved.key < keys
  /\ last.route = "upload"
  /\ last.cookie = saved
  /\ RedirectedToLogin(last)

(***************************************************************************)
(* Properties of the page store (checked under SpecStore).                 *)
(***************************************************************************)
FirstID == generatePageID(FirstRandom)

\* an id that is empty or contains "." or "/"
Malformed(id) == id = <<>> \/ (\E i \in 1..Len(id) : id[i] \in {".", "/"})

\* the answers of the three readers in a state of the file system
ListOf(f) == handleListPages(f, FALSE, {})
SourceOf(f, id) == handleDownloadSource(f, id)
DeleteOf(f, id) == handleDeletePage(f, id, FALSE, {})

\* C6: delete and getSource answer 400 to an id that is empty or contains
\* "." or "/", whether or not the path it names exists, and leave the page
\* store as it was.
C6_IdValidation ==
  [][(last'.route \in {"delete", "source"} /\ last'.ran /\ Malformed(last'.arg))
     => (last'.status = StatusBadRequest /\ fs' = fs)]_vars

C6_Witness ==
  /\ last.route = "delete"
  /\ last.arg = <<".", "/">> \o FirstID
  /\ last.status = StatusBadRequest
  /\ FirstID \in DOMAIN fs.pages

\* what a delete that answered 200 for id leaves
Removed(f, id) ==
  /\ id \notin DOMAIN f.pages
  /\ id \notin ListOf(f).out
  /\ SourceOf(f, id).status = StatusNotFound
  /\ DeleteOf(f, id).status = StatusNotFound

\* C7 as stated: for a well-formed id, delete answers 404 and changes
\* nothing when no directory has that name; when one has, it answers 200 and
\* removes it, after which list omits the id and getSource and a further
\* delete answer 404.
C7_DeleteExisting ==
  [][(last'.route = "delete" /\ last'.ran /\ ~Malformed(last'.arg))
     => IF last'.arg \notin DOMAIN fs.pages
          THEN last'.status = StatusNotFound /\ fs' = fs
          ELSE last'.status = StatusOK /\ Removed(fs', last'.arg)]_vars

\* C7 as amended: as stated, except that a delete of an existing directory
\* whose removal fails answers 500 and leaves the directory in place.
C7_DeleteUnlessRemovalFails ==
  [][(last'.route = "delete" /\ last'.ran /\ ~Malformed(last'.arg))
     => IF last'.arg \notin DOMAIN fs.pages
          THEN last'.status = StatusNotFound /\ fs' = fs
          ELSE \/ last'.status = StatusOK /\ Removed(fs', last'.arg)
               \/ /\ last'.status = StatusInternalServerError
                  /\ last'.arg \in DOMAIN fs'.pages]_vars

C7_Witness ==
  /\ last.route = "delete"
  /\ last.arg \in PageIDs
  /\ last.status = StatusOK
  /\ last.arg \notin DOMAIN fs.pages
  /\ DOMAIN fs.pages # {}

\* C8 as stated, for the request that follows the upload: when an upload
\* answered 200 for content raw and the next request is not a delete of its
\* id, getSource of that id then returns raw.
C8_RoundTrip ==
  [][(/\ last.route = "upload"
      /\ last.status = StatusOK
      /\ ~(last'.route = "delete" /\ last'.id = last.id))
     => SourceOf(fs', last.id) = [status |-> StatusOK, out |-> <<last.arg.Content>>]]_vars

\* C8 as amended: after an upload that answered 200 for content raw,
\* getSource of its id returns raw, and what getSource of an id returns
\* changes only by a delete of that id or by an upload that generated the
\* same id.
C8_RoundTripUntilOverwritten ==
  [][/\ (last'.route = "upload" /\ last'.status = StatusOK)
        => SourceOf(fs', last'.id) =
             [status |-> StatusOK, out |-> <<last'.arg.Content>>]
     /\ (fs' # fs) =>
          /\ last'.route \in {"upload", "delete"}
          /\ \A id \in PageIDs \ {last'.id} :
               SourceOf(fs, id).status = StatusOK => SourceOf(fs', id) = SourceOf(fs, id)]_vars

C8_Witness ==
  /\ last.route = "source"
  /\ last.status = StatusOK
  /\ last.out = <<"# Hi">>
  /\ Cardinality(DOMAIN fs.pages) = 2

\* C9: after an upload of type html answered 200 with the URL /<id>/, the
\* document served at that path is the uploaded content, and so is the
\* stored source.
C9_HtmlVerbatim ==
  (last.route = "upload" /\ last.status = StatusOK /\ last.arg.Type = "html")
    => /\ last.out = Url(last.id)
       /\ ServePage(fs, last.id) = [status |-> StatusOK, out |-> <<last.arg.Content>>]
       /\ SourceOf(fs, last.id).out = ServePage(fs, last.id).out

C9_Witness ==
  /\ last.route = "upload"
  /\ last.status = StatusOK
  /\ last.arg.Type = "html"
  /\ ServePage(fs, last.id).out = <<"<p>x</p>">>

\* 16 lowercase hexadecimal characters
Hex16(id) ==
  /\ Len(id) = 16
  /\ \A i \in 1..Len(id) :
       id[i] \in {"0", "1", "2", "3", "4", "5", "6", "7", "8", "9",
                  "a", "b", "c", "d", "e", "f"}

Holds(f, id, req) ==
  /\ id \in DOMAIN f.pages
  /\ DOMAIN f.pages[id] = FileNames
  /\ f.pages[id][SourceFile] = <<req.Content>>
  /\ f.pages[id][IndexFile] = FinalContent(req)

\* the page directory of id is the same in f and g
SamePage(f, g, id) ==
  /\ id \in DOMAIN f.pages <=> id \in DOMAIN g.pages
  /\ id \in DOMAIN f.pages => f.pages[id] = g.pages[id]

\* C12 as stated, for the request that follows the upload: when an upload
\* answered 200 with /<id>/, the directory of id holds its two files, and the
\* next request leaves them as they are unless it is a delete of id that
\* answers 200.
C12_OnlyDeleteDestroys ==
  [][/\ (last'.route = "upload" /\ last'.status = StatusOK)
        => Holds(fs', last'.id, last'.arg)
     /\ (/\ last.route = "upload"
         /\ last.status = StatusOK
         /\ ~(last'.route = "delete" /\ last'.id = last.id
              /\ last'.status = StatusOK))
        => SamePage(fs, fs', last.id)]_vars

\* C12 as amended: when an upload answered 200 with /<id>/, the directory of
\* id holds its two files, and a page directory changes or disappears only
\* by a delete of its id that answers 200 or 500, or by an upload that
\* generated the same id.
C12_OnlyDeleteOrSameId ==
  [][/\ (last'.route = "upload" /\ last'.status = StatusOK)
        => Holds(fs', last'.id, last'.arg)
     /\ (fs' # fs) =>
          \A id \in DOMAIN fs.pages :
            SamePage(fs, fs', id)
            \/ /\ last'.id = id
               /\ \/ last'.route = "upload"
                  \/ /\ last'.route = "delete"
                     /\ last'.status \in {StatusOK, StatusInternalServerError}]_vars

C12_Witness ==
  /\ last.route = "delete"
  /\ last.status = StatusNotFound
  /\ \E id \in DOMAIN fs.pages : Holds(fs, id, [Content |-> "# Hi", Type |-> "markdown",
                                                 ThemeCSS |-> "body{}"])

\* C14: an upload without content or without type answers 400, generates no
\* id and leaves the page store as it was.
C14_MissingFields ==
  [][(/\ last'.route = "upload"
      /\ last'.ran
      /\ (last'.arg.Content = "" \/ last'.arg.Type = ""))
     => /\ last'.status = StatusBadRequest
        /\ last'.id = <<>>
        /\ last'.out = <<>>
        /\ fs' = fs]_vars

C14_Witness ==
  /\ last.route = "upload"
  /\ last.arg.Type = ""
  /\ last.arg.Content # ""
  /\ last.status = StatusBadRequest
  /\ DOMAIN fs.pages # {}

\* C19: a delete changes nothing but the directory under "public" that has
\* the name it was given, and creates none; an upload changes nothing but the
\* directory of the id it generated; "public" and the working directory stay.
C19_Frame ==
  [][(last'.route \in {"delete", "upload"} /\ last'.ran)
     => /\ fs'.app = fs.app
        /\ fs'.root = fs.root
        /\ \A n \in (DOMAIN fs.pages \cup DOMAIN fs'.pages) \ {last'.id} :
             SamePage(fs, fs', n)
        /\ last'.route = "delete" => DOMAIN fs'.pages \subseteq DOMAIN fs.pages
        /\ last'.id \in DOMAIN fs'.pages \ DOMAIN fs.pages => Hex16(last'.id)]_vars

C19_Witness ==
  /\ last.route = "delete"
  /\ last.status = StatusOK
  /\ Cardinality(DOMAIN fs.pages) = 1
  /\ \A n \in DOMAIN fs.pages : DOMAIN fs.pages[n] = FileNames

(***************************************************************************)
(* Properties of failing creates (checked under SpecCreate).               *)
(***************************************************************************)
\* the failures that make createPageFile(req) return an error
FailuresOf(req) ==
  {fault \in UploadFaults \ {"none"} : fault = "convert" => req.Type = "markdown"}

\* the files of the directory of id, none when there is no directory
FilesOf(f, id) == IF id \in DOMAIN f.pages THEN f.pages[id] ELSE EmptyDir

\* of the requests that can follow in a state, only a delete of its id
\* removes a page directory
OnlyDeleteRemoves ==
  /\ \A req \in CreateRequests, randomBytes \in CreateRandoms, fault \in UploadFaults :
       DOMAIN fs.pages \subseteq DOMAIN handleUpload(fs, req, randomBytes, fault).fs.pages
  /\ \A id \in DOMAIN fs.pages :
       /\ id \notin DOMAIN DeleteOf(fs, id).fs.pages
       /\ \A other \in CreateIDs \ {id} : id \in DOMAIN DeleteOf(fs, other).fs.pages

Uploads == {w \in DOMAIN tasks : tasks[w].op = "upload"}
Deletes == {w \in DOMAIN tasks : tasks[w].op = "delete"}
Lists == {w \in DOMAIN tasks : tasks[w].op = "list"}
Done(w) == tasks[w].pc = "done"

C13_ListSkipsVanished ==
  \A w \in Lists :
    Done(w) =>
      /\ tasks[w].status = StatusOK
      /\ tasks[w].out = tasks[w].seen \ tasks[w].skipped
      /\ tasks[w].stable \subseteq tasks[w].out
      /\ tasks[w].out \cap tasks[w].skipped = {}

C13_Witness ==
  \E w \in Lists :
    /\ Done(w)
    /\ tasks[w].status = StatusOK
    /\ tasks[w].skipped # {}
    /\ tasks[w].stable # {}
    /\ tasks[w].out = tasks[w].stable

\* C17: a delete answers 200 only when its removal removed something, and
\* of the deletes of one id no more answer 200 than uploads created its
\* directory.
C17_OneDeleteSucceeds ==
  /\ \A w \in Deletes :
       (Done(w) /\ tasks[w].status = StatusOK) => tasks[w].removed
  /\ \A id \in CreateIDs :
       Cardinality({w \in Deletes : Done(w) /\ tasks[w].id = id
                                    /\ tasks[w].status = StatusOK})
         <= Cardinality({w \in Uploads : tasks[w].id = id})

\* C18 as stated: in every state a page directory that holds both files
\* holds the content of one upload request in source.txt and the rendering
\* of that request in index.html.
C18_FilesFromSameUpload ==
  \A n \in DOMAIN fs.pages :
    DOMAIN fs.pages[n] = FileNames =>
      \E req \in {HtmlRequest, MarkdownRequest} : Holds(fs, n, req)

\* C18 as amended: in every state a page directory that holds both files,
\* whose id was generated by one upload only, and that upload has answered
\* 200, holds the content of that request in source.txt and its rendering
\* in index.html.
C18_FilesOfTheOnlyUpload ==
  \A n \in DOMAIN fs.pages :
    \A w \in Uploads :
      (/\ DOMAIN fs.pages[n] = FileNames
       /\ tasks[w].id = n
       /\ \A v \in Uploads \ {w} : tasks[v].id # n
       /\ Done(w)
       /\ tasks[w].status = StatusOK)
      => Holds(fs, n, tasks[w].req)

C18_Witness ==
  /\ Cardinality(DOMAIN fs.pages) = 2
  /\ \A w \in {"u1", "u2", "d1", "l1"} : w \in DOMAIN tasks /\ Done(w)
  /\ tasks["u1"].status = StatusOK
  /\ tasks["u2"].status = StatusOK
  /\ Holds(fs, tasks["u1"].id, HtmlRequest)
  /\ Holds(fs, tasks["u2"].id, MarkdownRequest)

=============================================================================
